---- MODULE Spec2Model ----
(***************************************************************************)
(* The custom DHCP server of the IoTCraft gateway                          *)
(* (iotcraft-gateway/main/esp32-dhcp-server.c): reservation table, dynamic *)
(* lease table and cursor, option decoder, reply builder and the receive   *)
(* loop of dhcp_server_task.                                               *)
(*                                                                         *)
(* Representation.  A byte is a number in 0..255.  A uint32_t is the tuple *)
(* of its four bytes in memory order; the targets (ESP32 family) are       *)
(* little-endian, so w[1] is the least significant byte and htonl/ntohl    *)
(* reverse the tuple.  An IPv4 address a.b.c.d in network order is the     *)
(* tuple <<a, b, c, d>>.  A MAC is the tuple of its six bytes, and memcmp  *)
(* of two MACs yielding 0 is equality of the tuples.                       *)
(***************************************************************************)
EXTENDS Integers, Sequences, FiniteSets, TLC

(***************************************************************************)
(* Program constants.                                                      *)
(***************************************************************************)
MAX_RESERVATIONS == 10
MAX_DYNAMIC_LEASES == 32
DHCPDISCOVER == 1
DHCPOFFER == 2
DHCPREQUEST == 3
DHCPACK == 5
header_size == 236
MinReplyLen == 300
NotFound == -1

(***************************************************************************)
(* Bounds of the model.                                                    *)
(*   NumFresh   clients without a reservation, besides the all-zero MAC    *)
(*   Early      clients without a reservation seen before the quiet phase  *)
(*   Late       such clients still to come when the quiet phase ends       *)
(*   MaxMints   cap on the increments of dynamic_ip_current                *)
(*   OptWin     bytes of packet.options the model keeps (a datagram's      *)
(*              options are shorter, so index `length' is inside)          *)
(*   MaxTail    option bytes after the cookie in the decoder's inputs      *)
(***************************************************************************)
NumFresh == 33
MaxMints == 35
MaxTail == 3
OptWin == MaxTail + 5
Early == 1
Late == 1

(***************************************************************************)
(* 32-bit words and addresses.                                             *)
(***************************************************************************)
IP4_ADDR(a, b, c, d) == <<a, b, c, d>>
inet_addr(a, b, c, d) == <<a, b, c, d>>
IPADDR_ANY == IP4_ADDR(0, 0, 0, 0)
\* The mutant of the test takes every address, 0.0.0.0 too, for a reservation.
addr_isany_never(ip) == FALSE
ip4_addr_isany_val(ip) == ip = IPADDR_ANY

\* lwip htonl/ntohl on a little-endian target: the byte swap.
htonl(w) == <<w[4], w[3], w[2], w[1]>>
ntohl(w) == <<w[4], w[3], w[2], w[1]>>

\* w + 1 on a uint32_t (memory order, least significant byte first), modulo 2^32.
AddOne(w) ==
    IF w[1] < 255 THEN <<w[1] + 1, w[2], w[3], w[4]>>
    ELSE IF w[2] < 255 THEN <<0, w[2] + 1, w[3], w[4]>>
    ELSE IF w[3] < 255 THEN <<0, 0, w[3] + 1, w[4]>>
    ELSE IF w[4] < 255 THEN <<0, 0, 0, w[4] + 1>>
    ELSE <<0, 0, 0, 0>>

\* Line 517, htonl(ntohl(dynamic_ip_current) + 1), after two mutants of it: the
\* increment applied to the network-order word, and no increment.
NextCursorNoSwap(cur) == AddOne(cur)
NextCursorStuck(cur) == cur
NextCursor(cur) == htonl(AddOne(ntohl(cur)))

\* (WrongGateway and SubnetMaskWide are mutants of the two addresses below.)
WrongGateway == inet_addr(192, 168, 4, 2)
SubnetMaskWide == inet_addr(255, 255, 0, 0)
GatewayIp == inet_addr(192, 168, 4, 1)
PoolStart == inet_addr(192, 168, 4, 2)
SubnetMask == inet_addr(255, 255, 255, 0)
DnsIp == inet_addr(8, 8, 8, 8)

\* Host-order comparison of two network-order addresses (a is most significant).
HostLess(x, y) ==
    \/ x[1] < y[1]
    \/ x[1] = y[1] /\ x[2] < y[2]
    \/ x[1] = y[1] /\ x[2] = y[2] /\ x[3] < y[3]
    \/ x[1] = y[1] /\ x[2] = y[2] /\ x[3] = y[3] /\ x[4] < y[4]

(***************************************************************************)
(* Clients.                                                                *)
(***************************************************************************)
Mac(n) == <<170, 187, 204, 221, 238, n>>
ZeroMac == <<0, 0, 0, 0, 0, 0>>
\* AA:BB:CC:DD:EE:01, :03, :05 ... never appear in a reservations file.
FreshMac(f) == Mac(2 * f - 1)
\* AA:BB:CC:DD:EE:02, :04, :06 are the MACs reservations files name.
ResMacA == Mac(2)
ResMacB == Mac(4)
ResMacC == Mac(6)
FreshMacs == {FreshMac(f) : f \in 1..NumFresh}
ResMacs == {ResMacA, ResMacB, ResMacC}
AllMacs == {ZeroMac} \cup ResMacs \cup FreshMacs
ZeroPad == <<0, 0, 0, 0, 0, 0, 0, 0, 0, 0>>
\* The first six bytes of chaddr, which every lookup compares.
client_mac(chaddr) == SubSeq(chaddr, 1, 6)

(***************************************************************************)
(* Reservation table (load_dhcp_reservations, get_reserved_ip_for_client). *)
(* A source entry is one element of the "reservations" array:              *)
(*   hasStrings  "mac" and "ip" are both JSON strings                      *)
(*   macOk, mac  whether sscanf converts six fields, and the bytes it      *)
(*               stores into the slot (all six, or the converted prefix    *)
(*               over what the slot held)                                  *)
(*   ipOk, ip    whether inet_aton accepts the text, and the address       *)
(***************************************************************************)
EmptyReservation == [mac |-> ZeroMac, reserved_ip |-> IPADDR_ANY]
EmptyReservationTable == [i \in 0..(MAX_RESERVATIONS - 1) |-> EmptyReservation]

\* sscanf with %hhx stores each converted byte as it goes: `n' bytes of `mac'.
ScanInto(old, mac, n) == [k \in 1..6 |-> IF k <= n THEN mac[k] ELSE old[k]]

\* The mutant of the array loop lets an entry whose address does not parse
\* take a slot.
RECURSIVE LoadLoopCountsBadIp(_, _, _, _)
LoadLoopCountsBadIp(src, k, table, count) ==
    IF k > Len(src) \/ count >= MAX_RESERVATIONS THEN [table |-> table, count |-> count]
    ELSE LET e == src[k] IN
         IF ~e.hasStrings THEN LoadLoopCountsBadIp(src, k + 1, table, count)
         ELSE LET scanned == [table EXCEPT ![count].mac =
                                  ScanInto(@, e.mac, IF e.macOk THEN 6 ELSE e.macFields)]
              IN  IF ~e.macOk THEN LoadLoopCountsBadIp(src, k + 1, scanned, count)
                  ELSE LoadLoopCountsBadIp(src, k + 1,
                                [scanned EXCEPT ![count].reserved_ip = e.ip], count + 1)

\* The array loop of load_dhcp_reservations from entry k on.
RECURSIVE LoadLoop(_, _, _, _)
LoadLoop(src, k, table, count) ==
    IF k > Len(src) \/ count >= MAX_RESERVATIONS THEN [table |-> table, count |-> count]
    ELSE LET e == src[k] IN
         IF ~e.hasStrings THEN LoadLoop(src, k + 1, table, count)
         ELSE LET scanned == [table EXCEPT ![count].mac =
                                  ScanInto(@, e.mac, IF e.macOk THEN 6 ELSE e.macFields)]
              IN  IF ~e.macOk THEN LoadLoop(src, k + 1, scanned, count)
                  ELSE IF ~e.ipOk THEN LoadLoop(src, k + 1, scanned, count)
                  ELSE LoadLoop(src, k + 1,
                                [scanned EXCEPT ![count].reserved_ip = e.ip], count + 1)

\* The mutant of load_dhcp_reservations goes through whatever entries it is
\* given, readable file or not.
load_ignoring_failure(file, table, count) ==
    LET r == LoadLoop(file.entries, 1, table, 0)
    IN  [ret |-> "ESP_OK", table |-> r.table, count |-> r.count]

\* load_dhcp_reservations on a file: `file.readable' is FALSE when fopen, the JSON
\* parse or the array test fails, and then nothing is assigned.
load_dhcp_reservations(file, table, count) ==
    IF ~file.readable THEN [ret |-> "ESP_FAIL", table |-> table, count |-> count]
    ELSE LET r == LoadLoop(file.entries, 1, table, 0)
         IN  [ret |-> "ESP_OK", table |-> r.table, count |-> r.count]

\* The mutant returns the last matching entry instead of the first.
ReservedIndexLast(table, count, mac) ==
    LET hits == {i \in 0..(count - 1) : table[i].mac = mac}
    IN  IF hits = {} THEN -1 ELSE CHOOSE i \in hits : \A j \in hits : j <= i
ReservedIndex(table, count, mac) ==
    LET hits == {i \in 0..(count - 1) : table[i].mac = mac}
    IN  IF hits = {} THEN -1 ELSE CHOOSE i \in hits : \A j \in hits : i <= j

\* The mutant is a lookup that never finds a reservation.
LookupFindsNothing(table, count, mac) == IPADDR_ANY
get_reserved_ip_for_client(table, count, mac) ==
    LET i == ReservedIndex(table, count, mac)
    IN  IF i < 0 THEN IPADDR_ANY ELSE table[i].reserved_ip

(***************************************************************************)
(* Dynamic lease table (get_dynamic_lease, set_dynamic_lease).             *)
(***************************************************************************)
EmptyLease == [mac |-> ZeroMac, ip |-> IPADDR_ANY]
EmptyLeases == [i \in 0..(MAX_DYNAMIC_LEASES - 1) |-> EmptyLease]
LeaseSlots == 0..(MAX_DYNAMIC_LEASES - 1)

FirstOf(S) == CHOOSE i \in S : \A j \in S : i <= j

get_dynamic_lease(leases, mac) ==
    LET hits == {i \in LeaseSlots : leases[i].mac = mac}
    IN  IF hits = {} THEN IPADDR_ANY ELSE leases[FirstOf(hits)].ip

\* The mutant of set_dynamic_lease takes the last free slot instead of the first.
set_dynamic_lease_last_free(leases, mac, ip) ==
    LET hits == {i \in LeaseSlots : leases[i].mac = mac /\ leases[i].ip # IPADDR_ANY}
        free == {i \in LeaseSlots : leases[i].ip = IPADDR_ANY}
    IN  IF hits # {} THEN [leases EXCEPT ![FirstOf(hits)].ip = ip]
        ELSE IF free # {}
             THEN [leases EXCEPT ![CHOOSE i \in free : \A j \in free : j <= i] =
                                      [mac |-> mac, ip |-> ip]]
        ELSE leases

\* The mutant of set_dynamic_lease reuses the first slot when no slot is free.
set_dynamic_lease_evicting(leases, mac, ip) ==
    LET hits == {i \in LeaseSlots : leases[i].mac = mac}
        free == {i \in LeaseSlots : leases[i].ip = IPADDR_ANY}
    IN  IF hits # {} THEN [leases EXCEPT ![FirstOf(hits)].ip = ip]
        ELSE IF free # {} THEN [leases EXCEPT ![FirstOf(free)] = [mac |-> mac, ip |-> ip]]
        ELSE [leases EXCEPT ![0] = [mac |-> mac, ip |-> ip]]

set_dynamic_lease(leases, mac, ip) ==
    LET hits == {i \in LeaseSlots : leases[i].mac = mac}
        free == {i \in LeaseSlots : leases[i].ip = IPADDR_ANY}
    IN  IF hits # {} THEN [leases EXCEPT ![FirstOf(hits)].ip = ip]
        ELSE IF free # {} THEN [leases EXCEPT ![FirstOf(free)] = [mac |-> mac, ip |-> ip]]
        ELSE leases

\* Lines 508-519 of dhcp_server_task: the address offered to `mac', and the
\* lease table and cursor afterwards.
Resolve(table, count, leases, cursor, mac) ==
    LET reserved == get_reserved_ip_for_client(table, count, mac)
        known == get_dynamic_lease(leases, mac)
    IN  IF ~ip4_addr_isany_val(reserved)
        THEN [offered_ip |-> reserved, leases |-> leases, cursor |-> cursor, minted |-> FALSE]
        ELSE IF known # IPADDR_ANY
        THEN [offered_ip |-> known, leases |-> leases, cursor |-> cursor, minted |-> FALSE]
        ELSE [offered_ip |-> cursor, leases |-> set_dynamic_lease(leases, mac, cursor),
              cursor |-> NextCursor(cursor), minted |-> TRUE]

(***************************************************************************)
(* Option decoder (get_dhcp_message_type).  `options' maps the indexes     *)
(* 0..OptWin-1 of packet.options to bytes, `length' is the declared        *)
(* length.  The result carries the returned value and the set of indexes   *)
(* the call read.                                                          *)
(***************************************************************************)
MagicCookie == <<99, 130, 83, 99>>

\* The && chain of the cookie test reads up to the first differing byte.
CookieReads(options) ==
    IF options[0] # MagicCookie[1] THEN {0}
    ELSE IF options[1] # MagicCookie[2] THEN {0, 1}
    ELSE IF options[2] # MagicCookie[3] THEN {0, 1, 2}
    ELSE {0, 1, 2, 3}
CookieOk(options) == \A k \in 0..3 : options[k] = MagicCookie[k + 1]

\* The while loop from index i on.
RECURSIVE OptionWalk(_, _, _, _)
OptionWalk(options, length, i, reads) ==
    IF i >= length THEN [ret |-> NotFound, reads |-> reads]
    ELSE LET option_type == options[i]
             r1 == reads \cup {i}
         IN  IF option_type = 255 THEN [ret |-> NotFound, reads |-> r1]
             ELSE IF option_type = 0 THEN OptionWalk(options, length, i + 1, r1)
             ELSE IF i + 1 >= length THEN [ret |-> NotFound, reads |-> r1]
             ELSE LET option_len == options[i + 1]
                      r2 == r1 \cup {i + 1}
                  IN  IF option_type = 53 /\ option_len = 1
                      THEN [ret |-> options[i + 2], reads |-> r2 \cup {i + 2}]
                      ELSE OptionWalk(options, length, i + 2 + option_len, r2)

\* The mutant omits the magic-cookie test.
DecodeNoCookieTest(options, length) ==
    IF length < 4 THEN [ret |-> NotFound, reads |-> {}]
    ELSE OptionWalk(options, length, 4, {})
get_dhcp_message_type(options, length) ==
    IF length < 4 THEN [ret |-> NotFound, reads |-> {}]
    ELSE IF ~CookieOk(options) THEN [ret |-> NotFound, reads |-> CookieReads(options)]
    ELSE OptionWalk(options, length, 4, {0, 1, 2, 3})

(***************************************************************************)
(* Packets (dhcp_packet_t) and the reply builder (build_dhcp_reply).       *)
(* uint16_t and uint32_t fields are byte tuples in memory order.           *)
(***************************************************************************)
Zeros(n) == [k \in 1..n |-> 0]
Fill(n, b) == [k \in 1..n |-> b]
U16(n) == <<n % 256, n \div 256>>
U32(n) == <<n % 256, (n \div 256) % 256, (n \div 65536) % 256, n \div 16777216>>
htons(h) == <<h[2], h[1]>>
BroadcastFlag == htons(U16(32768))

\* memset(&reply, 0, sizeof(reply)) at line 521.
ZeroReply ==
    [op |-> 0, htype |-> 0, hlen |-> 0, hops |-> 0, xid |-> Zeros(4), secs |-> Zeros(2),
     flags |-> Zeros(2), ciaddr |-> Zeros(4), yiaddr |-> Zeros(4), siaddr |-> Zeros(4),
     giaddr |-> Zeros(4), chaddr |-> Zeros(16), sname |-> Zeros(64), file |-> Zeros(128),
     options |-> Zeros(312)]

\* The bytes the builder writes from reply->options on, in order.
ReplyOptions(request, dhcp_msg_type) ==
    MagicCookie
    \o <<61, 7, 1>> \o SubSeq(request.chaddr, 1, 6)
    \o <<53, 1, dhcp_msg_type>>
    \o <<54, 4>> \o GatewayIp
    \o <<51, 4>> \o htonl(U32(3600))
    \o <<58, 4>> \o htonl(U32(1800))
    \o <<59, 4>> \o htonl(U32(3150))
    \o <<1, 4>> \o SubnetMask
    \o <<3, 4>> \o GatewayIp
    \o <<6, 4>> \o DnsIp
    \o <<255>>

\* build_dhcp_reply: the reply struct afterwards and the returned length.
build_dhcp_reply(request, reply, offered_ip, dhcp_msg_type) ==
    LET opts == ReplyOptions(request, dhcp_msg_type)
    IN  [reply |-> [reply EXCEPT
                      !.op = 2, !.htype = request.htype, !.hlen = request.hlen,
                      !.hops = 0, !.xid = request.xid, !.secs = Zeros(2),
                      !.flags = request.flags, !.ciaddr = Zeros(4),
                      !.yiaddr = offered_ip, !.siaddr = GatewayIp,
                      !.giaddr = Zeros(4), !.chaddr = request.chaddr,
                      !.sname = Zeros(64), !.file = Zeros(128),
                      !.options = opts \o SubSeq(@, Len(opts) + 1, 312)],
         len |-> header_size + Len(opts)]

\* The reply type chosen at line 522; the mutant acknowledges everything.
ReplyTypeAlwaysAck(msg_type) == DHCPACK
\* A second mutant: the reply echoes the request's type.
ReplyTypeEcho(msg_type) == msg_type
ReplyType(msg_type) == IF msg_type = DHCPDISCOVER THEN DHCPOFFER ELSE DHCPACK

\* Lines 521-529: the datagram handed to sendto, which is the first reply_len
\* bytes of the reply (`msg': the header fields and that much of the options).
\* (ClampLenOff: the mutant without the floor of lines 525-527.)
ClampLenOff(n) == n
ClampLen(n) == IF n < MinReplyLen THEN MinReplyLen ELSE n
\* The port the socket is bound to (line 471) and the destination of every
\* sendto: dest_addr is filled once at lines 479-482, before the loop, and the
\* source address recvfrom stores in client_addr is never read.  The mutant
\* answers a request that carries a ciaddr at that address.
ServerPort == 67
ClientPort == 68
ReplyDestUnicast(request) ==
    [dst |-> IF request.ciaddr = Zeros(4) THEN inet_addr(255, 255, 255, 255)
             ELSE request.ciaddr,
     port |-> ClientPort]
ReplyDest(request) == [dst |-> inet_addr(255, 255, 255, 255), port |-> ClientPort]

ReplyDatagram(request, offered_ip, msg_type) ==
    LET b == build_dhcp_reply(request, ZeroReply, offered_ip, ReplyType(msg_type))
    IN  [kind |-> "dhcp", dst |-> ReplyDest(request).dst, port |-> ReplyDest(request).port,
         src_port |-> ServerPort,
         built_len |-> b.len, len |-> ClampLen(b.len),
         msg |-> [b.reply EXCEPT
                    !.flags = BroadcastFlag,
                    !.options = SubSeq(@, 1, ClampLen(b.len) - header_size)]]

\* The task's local `reply' after lines 521-524 of one pass, `old' being what it
\* held before: cleared, built, flags forced.  The mutants skip the memset and
\* leave the flags the builder copied from the request.
memset_skipped(old) == old
memset_reply(old) == ZeroReply
ForceFlagsOff(rep) == rep
ForceFlags(rep) == [rep EXCEPT !.flags = BroadcastFlag]
ReplyBuffer(old, request, offered_ip, msg_type) ==
    ForceFlags(build_dhcp_reply(request, memset_reply(old), offered_ip,
                                ReplyType(msg_type)).reply)

\* send_gratuitous_arp, lines 374-409: the frame it builds.  The mutant builds
\* the other common form of announcement, an ARP request with an all-zero
\* target hardware address.
ArpFrameRequest(offered_ip, mac) ==
    [kind |-> "arp", dest |-> Fill(6, 255), src |-> mac, type |-> htons(U16(2054)),
     hwtype |-> htons(U16(1)), proto |-> htons(U16(2048)), hwlen |-> 6, protolen |-> 4,
     opcode |-> htons(U16(1)), shwaddr |-> mac, sipaddr |-> offered_ip,
     thwaddr |-> Zeros(6), tipaddr |-> offered_ip]
ArpFrame(offered_ip, mac) ==
    [kind |-> "arp", dest |-> Fill(6, 255), src |-> mac, type |-> htons(U16(2054)),
     hwtype |-> htons(U16(1)), proto |-> htons(U16(2048)), hwlen |-> 6, protolen |-> 4,
     opcode |-> htons(U16(2)), shwaddr |-> mac, sipaddr |-> offered_ip,
     thwaddr |-> mac, tipaddr |-> offered_ip]

(***************************************************************************)
(* State.                                                                  *)
(*   pc                  where app_main / dhcp_server_task stand:          *)
(*                       "boot", "loaded", "started", "listening",         *)
(*                       "deleted" (the task deleted itself), and for the  *)
(*                       decoder on its own "decode", "decoded"            *)
(*   reservation_table, reservation_count, dynamic_leases,                 *)
(*   dynamic_ip_current  the globals of the same names                     *)
(*   packet, len         the task's receive buffer and recvfrom's result   *)
(*   reply               the task's local of that name (dhcp_packet_t)     *)
(*   app_pc              where app_main stands once it has created the     *)
(*                       task: "starting" until it has started the other   *)
(*                       services, then "ready"                            *)
(*   loaded_file         history: the reservations file as                 *)
(*                       load_dhcp_reservations found it                   *)
(*   msg_type, reads     the decoder's result and the indexes it read      *)
(*   outcome             how the last loop iteration ended                 *)
(*   offered_ip          the local of that name in the last iteration      *)
(*   out                 the calls the last iteration made to the network, *)
(*                       in order, each with its success; the frames they  *)
(*                       carry are SentReply and SentArp below             *)
(* The locals of the loop body (msg_type, offered_ip) do not outlive an    *)
(* iteration: a pass that does not assign them leaves NotFound / 0.0.0.0.  *)
(*   offered, mints      history: the last address offered to each MAC,    *)
(*                       and the number of cursor increments               *)
(* The WiFi client (esp32-c6-swift-client, esp_swift_wrapper.c):           *)
(*   s_retry_num         the static of that name                           *)
(*   event_bits          the bits set in s_wifi_event_group                *)
(*   wifi_link           the station: "stopped", "started" (STA_START      *)
(*                       posted), "connecting" (esp_wifi_connect called,   *)
(*                       its outcome pending), "up" (it has an address),   *)
(*                       "down" (disconnected, no attempt under way)       *)
(*   wifi_pc, wifi_ret   wifi_connect: "idle" before the call, "waiting"   *)
(*                       in xEventGroupWaitBits, "returned" with wifi_ret  *)
(*   last_event, events  history: the event the handler ran on last, and   *)
(*                       how many it has run on                            *)
(*   got_ips, reconnects history: the got-IP events so far, and the calls  *)
(*                       of esp_wifi_connect from the disconnected branch  *)
(*                       since the last of them                            *)
(***************************************************************************)
VARIABLES pc, reservation_table, reservation_count, dynamic_leases,
          dynamic_ip_current, packet, len, msg_type, reads, outcome,
          offered_ip, out, offered, mints, reply, app_pc, loaded_file,
          s_retry_num, event_bits, wifi_link, wifi_pc, wifi_ret, last_event,
          events, got_ips, reconnects

vars == <<pc, reservation_table, reservation_count, dynamic_leases,
          dynamic_ip_current, packet, len, msg_type, reads, outcome,
          offered_ip, out, offered, mints, reply, app_pc, loaded_file,
          s_retry_num, event_bits, wifi_link, wifi_pc, wifi_ret, last_event,
          events, got_ips, reconnects>>

leaseVars == <<dynamic_leases, dynamic_ip_current, offered, mints>>
loopVars == <<packet, len, msg_type, reads, outcome, offered_ip, out, reply>>
wifiVars == <<s_retry_num, event_bits, wifi_link, wifi_pc, wifi_ret, last_event,
              events, got_ips, reconnects>>
gatewayVars == <<pc, reservation_table, reservation_count, leaseVars, loopVars,
                 app_pc, loaded_file>>

\* The client's statics before wifi_connect is called (lines 24-26).
WifiInit ==
    /\ s_retry_num = 0
    /\ event_bits = {}
    /\ wifi_link = "stopped"
    /\ wifi_pc = "idle"
    /\ wifi_ret = 0
    /\ last_event = <<"none", "none">>
    /\ events = 0
    /\ got_ips = 0
    /\ reconnects = 0

\* A receive buffer whose options window holds `window' (indexes 0..OptWin-1).
PacketOf(htype, hlen, xid, flags, chaddr, window) ==
    [op |-> 1, htype |-> htype, hlen |-> hlen, hops |-> 0, xid |-> xid,
     secs |-> Zeros(2), flags |-> flags, ciaddr |-> Zeros(4), yiaddr |-> Zeros(4),
     siaddr |-> Zeros(4), giaddr |-> Zeros(4), chaddr |-> chaddr,
     sname |-> Zeros(64), file |-> Zeros(128), options |-> window]
Window(bytes, rest) ==
    [k \in 0..(OptWin - 1) |-> IF k < Len(bytes) THEN bytes[k + 1] ELSE rest]
BlankPacket == PacketOf(0, 0, Zeros(4), Zeros(2), Zeros(16), Window(<<>>, 0))

Init ==
    /\ pc = "boot"
    /\ reservation_table = EmptyReservationTable
    /\ reservation_count = 0
    /\ dynamic_leases = EmptyLeases
    /\ dynamic_ip_current = Zeros(4)
    /\ packet = BlankPacket
    /\ len = 0
    /\ msg_type = NotFound
    /\ reads = {}
    /\ outcome = "none"
    /\ offered_ip = IPADDR_ANY
    /\ out = <<>>
    /\ offered = [m \in AllMacs |-> IPADDR_ANY]
    /\ mints = 0
    /\ reply = ZeroReply
    /\ app_pc = "starting"
    /\ loaded_file = [readable |-> FALSE, entries |-> <<>>]
    /\ WifiInit

(***************************************************************************)
(* app_main, lines 619-631.                                                *)
(***************************************************************************)
\* load_dhcp_reservations() on one of `files'; its result is ignored.
AppLoad(files) ==
    /\ pc = "boot"
    /\ \E f \in files :
          LET r == load_dhcp_reservations(f, reservation_table, reservation_count)
          IN  /\ reservation_table' = r.table
              /\ reservation_count' = r.count
              /\ loaded_file' = f
    /\ pc' = "loaded"
    /\ UNCHANGED <<leaseVars, loopVars, app_pc, wifiVars>>

\* The cursor is seeded and the server task created.
AppStart ==
    /\ pc = "loaded"
    /\ dynamic_ip_current' = PoolStart
    /\ pc' = "started"
    /\ UNCHANGED <<reservation_table, reservation_count, dynamic_leases, offered,
                   mints, loopVars, app_pc, loaded_file, wifiVars>>

\* app_main after xTaskCreate, lines 633-672: it waits two seconds, starts the
\* mDNS, MQTT, HTTP and GUI services and announces that the gateway is ready,
\* while the task runs (or has deleted itself).  It never learns how the
\* task's setup ended.  The mutant seeds the cursor here, after the task was
\* created.
AppServicesReseed ==
    /\ pc \in {"started", "listening", "deleted"}
    /\ app_pc = "starting"
    /\ app_pc' = "ready"
    /\ dynamic_ip_current' = PoolStart
    /\ UNCHANGED <<pc, reservation_table, reservation_count, dynamic_leases, offered,
                   mints, loopVars, loaded_file, wifiVars>>
AppServices ==
    /\ pc \in {"started", "listening", "deleted"}
    /\ app_pc = "starting"
    /\ app_pc' = "ready"
    /\ UNCHANGED <<pc, reservation_table, reservation_count, leaseVars, loopVars,
                   loaded_file, wifiVars>>

(***************************************************************************)
(* dhcp_server_task.                                                       *)
(***************************************************************************)
SetupResults == {"ok", "no_ip_info", "no_socket", "bind_failed"}

\* Lines 450-483.  `packet' and `reply' are uninitialised locals: they start as
\* any of `stacks'.
TaskSetup(stacks) ==
    /\ pc = "started"
    /\ \E r \in SetupResults, g \in stacks :
          /\ pc' = IF r = "ok" THEN "listening" ELSE "deleted"
          /\ packet' = g.packet
          /\ reply' = g.reply
    /\ UNCHANGED <<reservation_table, reservation_count, leaseVars, len, msg_type,
                   reads, outcome, offered_ip, out, app_pc, loaded_file, wifiVars>>

\* recvfrom of a datagram of d.len bytes into the buffer: header fields that lie
\* wholly inside the first d.len bytes are replaced (short datagrams end on a
\* field boundary), and so are the first d.len - 236 option bytes.
Covered(d, fieldEnd) == d.len >= fieldEnd
recvfrom(buf, d) ==
    [op      |-> IF Covered(d, 1) THEN d.pkt.op ELSE buf.op,
     htype   |-> IF Covered(d, 2) THEN d.pkt.htype ELSE buf.htype,
     hlen    |-> IF Covered(d, 3) THEN d.pkt.hlen ELSE buf.hlen,
     hops    |-> IF Covered(d, 4) THEN d.pkt.hops ELSE buf.hops,
     xid     |-> IF Covered(d, 8) THEN d.pkt.xid ELSE buf.xid,
     secs    |-> IF Covered(d, 10) THEN d.pkt.secs ELSE buf.secs,
     flags   |-> IF Covered(d, 12) THEN d.pkt.flags ELSE buf.flags,
     ciaddr  |-> IF Covered(d, 16) THEN d.pkt.ciaddr ELSE buf.ciaddr,
     yiaddr  |-> IF Covered(d, 20) THEN d.pkt.yiaddr ELSE buf.yiaddr,
     siaddr  |-> IF Covered(d, 24) THEN d.pkt.siaddr ELSE buf.siaddr,
     giaddr  |-> IF Covered(d, 28) THEN d.pkt.giaddr ELSE buf.giaddr,
     chaddr  |-> IF Covered(d, 44) THEN d.pkt.chaddr ELSE buf.chaddr,
     sname   |-> IF Covered(d, 108) THEN d.pkt.sname ELSE buf.sname,
     file    |-> IF Covered(d, 236) THEN d.pkt.file ELSE buf.file,
     options |-> [k \in 0..(OptWin - 1) |->
                     IF k < d.len - header_size THEN d.pkt.options[k]
                     ELSE buf.options[k]]]

\* How a pass ends, from what recvfrom returned and (for a datagram that holds
\* the header) what the decoder returned: lines 487, 491 and 498.  The mutant
\* answers every datagram that reaches to the end of chaddr.
PassKindAnswersShort(n, ret) ==
    IF n < 0 THEN "recv_error"
    ELSE IF n < 44 THEN "too_short"
    ELSE IF n >= header_size /\ ret < 0 THEN "no_type"
    ELSE "replied"
PassKind(n, ret) ==
    IF n < 0 THEN "recv_error"
    ELSE IF n < header_size THEN "too_short"
    ELSE IF ret < 0 THEN "no_type"
    ELSE "replied"

\* Where the task stands after a pass: every `continue' and the end of the body
\* lead back to recvfrom (while (1), no break).  The mutant leaves the loop,
\* and so reaches vTaskDelete, on a pass that sent nothing.
AfterPassStopsOnError(how) == IF how = "replied" THEN "listening" ELSE "deleted"
AfterPass(how) == "listening"

\* The calls a replying pass makes to the network, lines 529-536 and 411-428:
\* sendto (its result is ignored), then send_gratuitous_arp, which gets as far
\* as net.reach: it returns before the link output when the interface has no
\* lwIP netif ("netif_impl") or no pbuf can be allocated ("pbuf_alloc").
\* net.sendOk and net.arpOk are what sendto and the link output return.  The
\* mutant announces the address before it sends the reply.
CallsArpFirst(net) ==
    (IF net.reach = "linkoutput" THEN <<[what |-> "linkoutput", ok |-> net.arpOk]>> ELSE <<>>)
        \o <<[what |-> "sendto", ok |-> net.sendOk]>>
Calls(net) ==
    <<[what |-> "sendto", ok |-> net.sendOk]>>
        \o (IF net.reach = "linkoutput" THEN <<[what |-> "linkoutput", ok |-> net.arpOk]>> ELSE <<>>)

\* The reservation table after a pass: no statement of the loop body assigns it
\* and get_reserved_ip_for_client (lines 206-220) only reads it.  The mutant
\* clears it.
TableAfterPassCleared(table) == EmptyReservationTable
TableAfterPass(table) == table

\* One pass of the while loop, lines 486-536, on the outcome `d' of recvfrom
\* (d.len < 0: an error) with `net' saying whether sendto and the link output
\* succeed.  A pass that mints is explored while fewer than `cap' addresses
\* have been minted.
IterationUpTo(d, net, cap) ==
    /\ pc = "listening"
    /\ len' = d.len
    /\ LET buf == IF d.len < 0 THEN packet ELSE recvfrom(packet, d)
           t == IF d.len < header_size
                THEN [ret |-> NotFound, reads |-> {}]
                ELSE get_dhcp_message_type(buf.options, d.len - header_size)
           how == PassKind(d.len, t.ret)
       IN  /\ packet' = buf
           /\ msg_type' = t.ret
           /\ reads' = t.reads
           /\ outcome' = how
           /\ pc' = AfterPass(how)
           /\ IF how # "replied"
              THEN /\ out' = <<>>
                   /\ offered_ip' = IPADDR_ANY
                   /\ UNCHANGED <<leaseVars, reply>>
              ELSE
              LET mac == client_mac(buf.chaddr)
                  r == Resolve(reservation_table, reservation_count,
                               dynamic_leases, dynamic_ip_current, mac)
              IN  /\ r.minted => mints < cap
                  /\ offered_ip' = r.offered_ip
                  /\ dynamic_leases' = r.leases
                  /\ dynamic_ip_current' = r.cursor
                  /\ mints' = IF r.minted THEN mints + 1 ELSE mints
                  /\ offered' = [offered EXCEPT ![mac] = r.offered_ip]
                  /\ reply' = ReplyBuffer(reply, buf, r.offered_ip, t.ret)
                  /\ out' = Calls(net)
    /\ reservation_table' = TableAfterPass(reservation_table)
    /\ UNCHANGED <<reservation_count, app_pc, loaded_file, wifiVars>>

\* A pass, explored while fewer than MaxMints addresses have been minted.
Iteration(d, net) == IterationUpTo(d, net, MaxMints)

\* The frames the last iteration handed to sendto and to the link output, from
\* the locals it computed them from.
reply_len == ClampLen(build_dhcp_reply(packet, ZeroReply, offered_ip, ReplyType(msg_type)).len)
SentReply ==
    [ReplyDatagram(packet, offered_ip, msg_type) EXCEPT
        !.msg = [reply EXCEPT !.options = SubSeq(@, 1, reply_len - header_size)]]
SentArp == ArpFrame(offered_ip, client_mac(packet.chaddr))

\* The message type option 53 of a transmitted reply carries (its 15th to 17th
\* option bytes, after the cookie and option 61).
SentType(dgram) == dgram.msg.options[16]

(***************************************************************************)
(* The environment: reservations files, stack contents, datagrams.        *)
(***************************************************************************)
Entry(mac, ip) ==
    [hasStrings |-> TRUE, macOk |-> TRUE, mac |-> mac, macFields |-> 6,
     ipOk |-> TRUE, ip |-> ip]
BadMacEntry(mac, n) ==
    [hasStrings |-> TRUE, macOk |-> FALSE, mac |-> mac, macFields |-> n,
     ipOk |-> TRUE, ip |-> inet_addr(192, 168, 4, 60)]
BadIpEntry(mac) ==
    [hasStrings |-> TRUE, macOk |-> TRUE, mac |-> mac, macFields |-> 6,
     ipOk |-> FALSE, ip |-> IPADDR_ANY]
NoStringsEntry ==
    [hasStrings |-> FALSE, macOk |-> FALSE, mac |-> ZeroMac, macFields |-> 0,
     ipOk |-> FALSE, ip |-> IPADDR_ANY]

ScenarioIp == inet_addr(192, 168, 4, 50)
\* No file, or not the JSON expected.
FileUnreadable == [readable |-> FALSE, entries |-> <<>>]
\* AA:BB:CC:DD:EE:02 reserved to 192.168.4.50.
FileScenario == [readable |-> TRUE, entries |-> <<Entry(ResMacA, ScenarioIp)>>]
\* A file with a malformed MAC, a malformed address, a MAC given twice, an
\* address inside the dynamic range and the address 0.0.0.0.
FileMixed ==
    [readable |-> TRUE,
     entries |-> <<BadMacEntry(ResMacC, 3),
                   Entry(ResMacB, inet_addr(192, 168, 4, 3)),
                   BadIpEntry(ResMacC),
                   NoStringsEntry,
                   Entry(ResMacB, inet_addr(192, 168, 4, 51)),
                   Entry(ResMacC, IPADDR_ANY)>>]
Files == {FileUnreadable, FileScenario, FileMixed}

\* What the task's stack may hold where `packet' and `reply' are placed: every
\* byte of packet.options and of reply 0, or every one of them 1.
StackReply(h) ==
    [op |-> h, htype |-> h, hlen |-> h, hops |-> h, xid |-> Fill(4, h),
     secs |-> Fill(2, h), flags |-> Fill(2, h), ciaddr |-> Fill(4, h),
     yiaddr |-> Fill(4, h), siaddr |-> Fill(4, h), giaddr |-> Fill(4, h),
     chaddr |-> Fill(16, h), sname |-> Fill(64, h), file |-> Fill(128, h),
     options |-> Fill(312, h)]
Stacks ==
    {[packet |-> PacketOf(0, 0, Zeros(4), Zeros(2), Zeros(16), Window(<<>>, g)),
      reply |-> StackReply(g)] : g \in {0, 1}}

\* A datagram template: everything but the client MAC.  len < 0 is a recvfrom error.
Template(n, opts) ==
    [len |-> n, htype |-> 1, hlen |-> 6, xid |-> <<18, 52, 86, 120>>,
     flags |-> Zeros(2), pad |-> ZeroPad, opts |-> opts]
WithOptions(opts) == Template(header_size + Len(opts), opts)
TplDiscover == WithOptions(MagicCookie \o <<53, 1, DHCPDISCOVER, 255>>)
TplRequest == WithOptions(MagicCookie \o <<53, 1, DHCPREQUEST, 255>>)
TplBadCookie == WithOptions(<<99, 130, 83, 0>>)
TplShort == Template(44, <<>>)
TplRecvError == Template(-1, <<>>)
\* Datagrams the server answers, and datagrams it drops.
Requests == {TplDiscover, TplRequest}
Junk == {TplBadCookie, TplShort, TplRecvError}
\* The client MAC the dropped datagrams carry (the server never looks at it).
JunkMac == Mac(255)

MakeDatagram(mac, tpl) ==
    [len |-> tpl.len,
     pkt |-> PacketOf(tpl.htype, tpl.hlen, tpl.xid, tpl.flags, mac \o tpl.pad,
                      Window(tpl.opts, 0))]

\* Clients without a reservation are interchangeable (the server only compares
\* MACs for equality), so they first appear in the order FreshMac(1), FreshMac(2),
\* ....  While more than Early and fewer than NumFresh - Late of them have been
\* seen (the quiet phase) the only traffic is the DISCOVER of the next new one.
\* Before it every client sends; after it those the server has answered before
\* (the first Early fresh ones and the newest among them) and the next new fresh
\* one.
FreshSeen == Cardinality({m \in FreshMacs : offered[m] # IPADDR_ANY})
Quiet == FreshSeen > Early /\ FreshSeen < NumFresh - Late
InTable(mac) == \E i \in 0..(reservation_count - 1) : reservation_table[i].mac = mac
NamedMacs == {ZeroMac} \cup {m \in ResMacs : InTable(m)}
ActiveFresh ==
    {FreshMac(f) : f \in {g \in 1..NumFresh :
                            /\ g <= FreshSeen + 1
                            /\ g <= Early \/ g >= FreshSeen}}
ActiveMacs ==
    IF Quiet THEN {FreshMac(FreshSeen + 1)}
    ELSE IF FreshSeen <= Early THEN NamedMacs \cup ActiveFresh
    ELSE {m \in NamedMacs : offered[m] # IPADDR_ANY} \cup ActiveFresh

AllDelivered == {[sendOk |-> TRUE, arpOk |-> TRUE, reach |-> "linkoutput"]}

\* A client's datagram arrives and is handled.
Receive(templates, nets) ==
    \E m \in ActiveMacs, tpl \in (IF Quiet THEN {TplDiscover} ELSE templates), net \in nets :
        Iteration(MakeDatagram(m, tpl), net)

\* recvfrom fails or yields a datagram the server drops (among the traffic of
\* the first clients).
ReceiveJunk(templates) ==
    /\ FreshSeen <= Early
    /\ \E tpl \in templates :
          Iteration(MakeDatagram(JunkMac, tpl),
                    [sendOk |-> TRUE, arpOk |-> TRUE, reach |-> "linkoutput"])

Next ==
    \/ AppLoad(Files)
    \/ AppStart
    \/ TaskSetup(Stacks)
    \/ Receive(Requests, AllDelivered)
    \/ ReceiveJunk(Junk)

Spec == Init /\ [][Next]_vars

(***************************************************************************)
(* The decoder on its own: get_dhcp_message_type applied to every options  *)
(* area whose first four bytes are the cookie or differ from it in one     *)
(* byte and whose next bytes are drawn from TailBytes, with every declared *)
(* length below OptWin.  Bytes at and after the declared length are what   *)
(* the receive buffer held before.                                         *)
(***************************************************************************)
TailBytes == {0, 1, 2, 53, 255}
Cookies ==
    {MagicCookie} \cup {[MagicCookie EXCEPT ![k] = 0] : k \in 1..4}
DecodeWindows ==
    {[k \in 0..(OptWin - 1) |-> IF k < 4 THEN c[k + 1] ELSE t[k - 3]] :
        c \in Cookies, t \in [1..(OptWin - 4) -> TailBytes]}

InitDecode ==
    /\ pc = "decode"
    /\ reservation_table = EmptyReservationTable
    /\ reservation_count = 0
    /\ dynamic_leases = EmptyLeases
    /\ dynamic_ip_current = PoolStart
    /\ packet \in {PacketOf(1, 6, <<18, 52, 86, 120>>, Zeros(2), FreshMac(1) \o ZeroPad, w) :
                     w \in DecodeWindows}
    /\ len \in header_size..(header_size + OptWin - 1)
    /\ msg_type = NotFound
    /\ reads = {}
    /\ outcome = "none"
    /\ offered_ip = IPADDR_ANY
    /\ out = <<>>
    /\ offered = [m \in AllMacs |-> IPADDR_ANY]
    /\ mints = 0
    /\ reply = ZeroReply
    /\ app_pc = "starting"
    /\ loaded_file = [readable |-> FALSE, entries |-> <<>>]
    /\ WifiInit

\* Line 497: the call on the buffer and the length recvfrom returned.
DecodeCall ==
    /\ pc = "decode"
    /\ LET t == get_dhcp_message_type(packet.options, len - header_size)
       IN  /\ msg_type' = t.ret
           /\ reads' = t.reads
    /\ pc' = "decoded"
    /\ UNCHANGED <<reservation_table, reservation_count, leaseVars, packet, len,
                   outcome, offered_ip, out, reply, app_pc, loaded_file, wifiVars>>

SpecDecode == InitDecode /\ [][DecodeCall]_vars

(***************************************************************************)
(* The server loop under every kind of datagram: three clients (one with a *)
(* reservation) send answered, malformed and short datagrams in any order, *)
(* recvfrom may fail, and sendto and the link output may fail.             *)
(***************************************************************************)
DHCPRELEASE == 7
\* A template with other flags, another transaction id and hardware type.
Restyled(tpl, flags) ==
    [tpl EXCEPT !.flags = flags, !.xid = <<222, 173, 190, 239>>, !.htype = 6]
TplRelease == Restyled(WithOptions(MagicCookie \o <<53, 1, DHCPRELEASE, 255>>), <<1, 2>>)
\* The cookie and End: no message type option.
TplNoType == WithOptions(MagicCookie \o <<255>>)
\* Option 53 cut off after its length byte.
TplTruncated == WithOptions(MagicCookie \o <<53, 1>>)
\* Every byte of the header but the last, and no byte at all.
TplAlmostHeader == Template(header_size - 1, <<>>)
TplEmpty == Template(0, <<>>)

LoopMacs == {ResMacA, FreshMac(1), FreshMac(2)}
LoopTemplates ==
    {TplDiscover, TplRequest, TplRelease, TplNoType, TplTruncated, TplBadCookie,
     TplShort, TplAlmostHeader, TplEmpty, TplRecvError}
Nets == {[sendOk |-> s, arpOk |-> a, reach |-> "linkoutput"] : s \in BOOLEAN, a \in BOOLEAN}

\* (A pass on less than a header never reaches sendto, so the network's
\* behaviour is only chosen for the longer datagrams.)
ReceiveFrom(macs, templates, nets) ==
    \E m \in macs, tpl \in templates :
        \E net \in (IF tpl.len < header_size THEN AllDelivered ELSE nets) :
            Iteration(MakeDatagram(m, tpl), net)

NextLoop ==
    \/ AppLoad({FileScenario})
    \/ AppStart
    \/ TaskSetup(Stacks)
    \/ ReceiveFrom(LoopMacs, LoopTemplates, Nets)

SpecLoop == Init /\ [][NextLoop]_vars

(***************************************************************************)
(* The reply builder on its own: build_dhcp_reply applied to requests that *)
(* differ in every header field and in their options, for several offered  *)
(* addresses and reply types, on a reply buffer that is cleared or not.     *)
(***************************************************************************)
\* A request that went through a relay and carries server names: the fields
\* the builder must not copy are non-zero.
Relayed(req) ==
    [req EXCEPT !.hops = 3, !.secs = <<0, 9>>, !.ciaddr = inet_addr(192, 168, 4, 77),
                !.yiaddr = inet_addr(10, 0, 0, 1), !.siaddr = inet_addr(10, 0, 0, 2),
                !.giaddr = inet_addr(10, 0, 0, 3), !.sname = Fill(64, 65),
                !.file = Fill(128, 66)]
\* Options areas of a DISCOVER without and with option 61 (a client identifier
\* that is not the hardware address).
OptionsPlain == Window(TplDiscover.opts, 0)
OptionsWithClientId ==
    [k \in 0..13 |-> (MagicCookie \o <<61, 4, 0, 9, 9, 9, 53, 1, DHCPDISCOVER, 255>>)[k + 1]]
BuildChaddrs ==
    {FreshMac(1) \o ZeroPad, ResMacA \o <<1, 2, 3, 4, 5, 6, 7, 8, 9, 10>>, Fill(16, 255)}
BuildRequests ==
    LET plain == {PacketOf(ht, hl, x, fl, ch, w) :
                    ht \in {1, 6}, hl \in {6, 16},
                    x \in {<<18, 52, 86, 120>>, <<255, 0, 255, 0>>},
                    fl \in {Zeros(2), BroadcastFlag, <<1, 2>>},
                    ch \in BuildChaddrs, w \in {OptionsPlain, OptionsWithClientId}}
    IN  plain \cup {Relayed(q) : q \in plain}
BuildIps == {PoolStart, ScenarioIp, inet_addr(10, 200, 0, 255)}
BuildTypes == {DHCPDISCOVER, DHCPREQUEST, DHCPRELEASE}

InitBuild ==
    /\ pc = "build"
    /\ reservation_table = EmptyReservationTable
    /\ reservation_count = 0
    /\ dynamic_leases = EmptyLeases
    /\ dynamic_ip_current = PoolStart
    /\ packet \in BuildRequests
    /\ len = header_size + 8
    /\ msg_type \in BuildTypes
    /\ reads = {}
    /\ outcome = "none"
    /\ offered_ip \in BuildIps
    /\ out = <<>>
    /\ offered = [m \in AllMacs |-> IPADDR_ANY]
    /\ mints = 0
    /\ reply \in {ZeroReply, StackReply(1)}
    /\ app_pc = "starting"
    /\ loaded_file = [readable |-> FALSE, entries |-> <<>>]
    /\ WifiInit

\* Line 523: build_dhcp_reply(&packet, &reply, offered_ip, reply_type).
BuildCall ==
    /\ pc = "build"
    /\ reply' = build_dhcp_reply(packet, reply, offered_ip, ReplyType(msg_type)).reply
    /\ pc' = "built"
    /\ UNCHANGED <<reservation_table, reservation_count, leaseVars, packet, len,
                   msg_type, reads, outcome, offered_ip, out, app_pc, loaded_file, wifiVars>>

SpecBuild == InitBuild /\ [][BuildCall]_vars

(***************************************************************************)
(* SpecTransmit: lines 521-536 of one pass (build the reply, hand it to    *)
(* sendto, announce the address by ARP) on each of the requests, addresses *)
(* and message types of InitBuild.                                         *)
(***************************************************************************)
TransmitCall ==
    /\ pc = "build"
    /\ reply' = ReplyBuffer(reply, packet, offered_ip, msg_type)
    /\ \E net \in Nets :
          out' = Calls(net)
    /\ outcome' = "replied"
    /\ pc' = "sent"
    /\ UNCHANGED <<reservation_table, reservation_count, leaseVars, packet, len,
                   msg_type, reads, offered_ip, app_pc, loaded_file, wifiVars>>

SpecTransmit == InitBuild /\ [][TransmitCall]_vars

(***************************************************************************)
(* SpecFull: the server is started without reservations, the first         *)
(* MAX_DYNAMIC_LEASES new clients are answered one after the other, and    *)
(* then a further client and two lease holders send, every reply and ARP   *)
(* being delivered or failing.                                             *)
(***************************************************************************)
FullMacs == {FreshMac(1), FreshMac(MAX_DYNAMIC_LEASES), FreshMac(MAX_DYNAMIC_LEASES + 1)}

ReceiveFull ==
    IF FreshSeen < MAX_DYNAMIC_LEASES
    THEN ReceiveFrom({FreshMac(FreshSeen + 1)}, {TplDiscover}, Nets)
    ELSE ReceiveFrom(FullMacs, Requests, Nets)

NextFull ==
    \/ AppLoad({FileUnreadable})
    \/ AppStart
    \/ TaskSetup(Stacks)
    \/ ReceiveFull

SpecFull == Init /\ [][NextFull]_vars

(***************************************************************************)
(* SpecOrder: the server loop on datagrams of every message type, with     *)
(* every way the reply and the announcement can go.                        *)
(***************************************************************************)
OrderTypes == {DHCPDISCOVER, DHCPREQUEST, 4, DHCPRELEASE, 8, 200}
OrderTemplates ==
    {WithOptions(MagicCookie \o <<53, 1, t, 255>>) : t \in OrderTypes}
        \cup {TplNoType, TplBadCookie, TplShort, TplRecvError}
OrderMacs == {ResMacA, FreshMac(1)}
NetsAll ==
    Nets \cup {[sendOk |-> s, arpOk |-> FALSE, reach |-> r] :
                  s \in BOOLEAN, r \in {"netif_impl", "pbuf_alloc"}}

NextOrder ==
    \/ AppLoad({FileScenario})
    \/ AppStart
    \/ TaskSetup(Stacks)
    \/ ReceiveFrom(OrderMacs, OrderTemplates, NetsAll)

SpecOrder == Init /\ [][NextOrder]_vars

(***************************************************************************)
(* SpecPool: the server is started without reservations and answers the    *)
(* DISCOVERs of MAX_DYNAMIC_LEASES + 1 clients one after the other, the     *)
(* last of them going on to send DISCOVERs, until MaxPoolMints addresses    *)
(* have been minted.                                                        *)
(***************************************************************************)
MaxPoolMints == 256

PoolClient ==
    FreshMac(IF FreshSeen < MAX_DYNAMIC_LEASES THEN FreshSeen + 1
             ELSE MAX_DYNAMIC_LEASES + 1)

ReceivePool ==
    \E net \in AllDelivered :
        IterationUpTo(MakeDatagram(PoolClient, TplDiscover), net, MaxPoolMints)

NextPool ==
    \/ AppLoad({FileUnreadable})
    \/ AppStart
    \/ TaskSetup(Stacks)
    \/ ReceivePool

SpecPool == Init /\ [][NextPool]_vars

(***************************************************************************)
(* SpecStale: the server loop on whole DISCOVERs and REQUESTs and on       *)
(* shorter datagrams that arrive in the buffer the earlier ones were       *)
(* received in.                                                            *)
(***************************************************************************)
StaleTemplates == {TplDiscover, TplRequest, TplTruncated, TplNoType, TplBadCookie}

NextStale ==
    \/ AppLoad({FileScenario})
    \/ AppStart
    \/ TaskSetup(Stacks)
    \/ ReceiveFrom(LoopMacs, StaleTemplates, AllDelivered)

SpecStale == Init /\ [][NextStale]_vars

(***************************************************************************)
(* SpecReserved: the server with reservation files that name a MAC twice   *)
(* and reserve 0.0.0.0, and the requests of the MACs they name and of two  *)
(* other clients.                                                          *)
(***************************************************************************)
\* AA:BB:CC:DD:EE:06 reserved to 0.0.0.0 and then to 192.168.4.52,
\* AA:BB:CC:DD:EE:04 to 192.168.4.51 and then to 192.168.4.3.
FileZeroFirst ==
    [readable |-> TRUE,
     entries |-> <<Entry(ResMacC, IPADDR_ANY),
                   Entry(ResMacB, inet_addr(192, 168, 4, 51)),
                   Entry(ResMacC, inet_addr(192, 168, 4, 52)),
                   Entry(ResMacB, inet_addr(192, 168, 4, 3))>>]
ReservedFiles == {FileMixed, FileZeroFirst}
ReservedMacs == {ResMacB, ResMacC, FreshMac(1), FreshMac(2)}

NextReserved ==
    \/ AppLoad(ReservedFiles)
    \/ AppStart
    \/ TaskSetup(Stacks)
    \/ ReceiveFrom(ReservedMacs, Requests, AllDelivered)

SpecReserved == Init /\ [][NextReserved]_vars

(***************************************************************************)
(* SpecBoot: app_main from start to "ready" next to the task it created,   *)
(* with every reservations file, every end of the task's setup and the     *)
(* requests of three clients.                                              *)
(***************************************************************************)
NextBoot ==
    \/ AppLoad(Files)
    \/ AppStart
    \/ TaskSetup(Stacks)
    \/ AppServices
    \/ ReceiveFrom(LoopMacs, Requests, AllDelivered)

SpecBoot == Init /\ [][NextBoot]_vars

(***************************************************************************)
(* SpecLoad: load_dhcp_reservations on files of up to MaxEntries array     *)
(* elements.  The function reads at most ReadLimit bytes of the file       *)
(* (lines 158-160); a longer file is cut there and is not JSON any more,   *)
(* so that it loads nothing.  Every element of these files is written in   *)
(* EntryBytes characters, as in                                            *)
(*     {"mac":"0:0:0:0:0:c","ip":"10.0.0.12"}                              *)
(* around which {"reservations":[ ... ]} takes WrapperBytes characters and *)
(* each separating comma one.                                              *)
(***************************************************************************)
ReadLimit == 511
EntryBytes == 38
WrapperBytes == 19
MaxEntries == 13

FileBytes(n) == WrapperBytes + n * EntryBytes + (IF n > 0 THEN n - 1 ELSE 0)
LoadFile(entries) ==
    [readable |-> FileBytes(Len(entries)) <= ReadLimit, entries |-> entries]

LoadMac(k) == <<0, 0, 0, 0, 0, k>>
LoadIp(k) == inet_addr(10, 0, 0, k)
GoodEntries(n) == [k \in 1..n |-> Entry(LoadMac(k), LoadIp(k))]
\* Elements that are not a reservation of a new MAC: a MAC of three fields, an
\* address that does not parse, members that are not strings, and the first
\* MAC once more.
OddEntries ==
    {BadMacEntry(LoadMac(255), 3), BadIpEntry(LoadMac(254)), NoStringsEntry,
     Entry(LoadMac(1), LoadIp(200))}
InsertAt(seq, p, e) == SubSeq(seq, 1, p - 1) \o <<e>> \o SubSeq(seq, p, Len(seq))
\* The lists of n reservations, and those with one odd element put anywhere.
LoadLists ==
    {GoodEntries(n) : n \in 0..MaxEntries}
        \cup UNION {{InsertAt(GoodEntries(n), p, e) : p \in 1..(n + 1), e \in OddEntries} :
                        n \in 1..(MaxEntries - 1)}
LoadFiles == {FileUnreadable} \cup {LoadFile(l) : l \in LoadLists}

SpecLoad == Init /\ [][AppLoad(LoadFiles)]_vars

(***************************************************************************)
(* SpecFail: app_main and the task when the reservations file is missing   *)
(* or is longer than the ReadLimit bytes load_dhcp_reservations reads, so  *)
(* that what it read is not JSON.                                          *)
(***************************************************************************)
FileTooLong == LoadFile(GoodEntries(MaxEntries))
FailingFiles == {FileUnreadable, FileTooLong}

NextFail ==
    \/ AppLoad(FailingFiles)
    \/ AppStart
    \/ TaskSetup(Stacks)
    \/ AppServices
    \/ ReceiveFrom(LoopMacs, Requests, AllDelivered)

SpecFail == Init /\ [][NextFail]_vars

(***************************************************************************)
(* SpecWifi: the WiFi client of esp32-c6-swift-client.  wifi_connect       *)
(* starts the station and blocks on the event group; the driver posts      *)
(* events, and the default event loop task, the only caller of             *)
(* event_handler, runs the handler on them one at a time.                  *)
(***************************************************************************)
WIFI_CONNECTED_BIT == "WIFI_CONNECTED_BIT"
WIFI_FAIL_BIT == "WIFI_FAIL_BIT"
ESP_MAXIMUM_RETRY == 5
MaxGotIp == 2

WIFI_EVENT_STA_START == <<"WIFI_EVENT", "WIFI_EVENT_STA_START">>
WIFI_EVENT_STA_CONNECTED == <<"WIFI_EVENT", "WIFI_EVENT_STA_CONNECTED">>
WIFI_EVENT_STA_DISCONNECTED == <<"WIFI_EVENT", "WIFI_EVENT_STA_DISCONNECTED">>
IP_EVENT_STA_GOT_IP == <<"IP_EVENT", "IP_EVENT_STA_GOT_IP">>

\* A retry is given up one attempt early.
MayRetryLess(n) == n < ESP_MAXIMUM_RETRY - 1

\* The test of line 42.
MayRetry(n) == n < ESP_MAXIMUM_RETRY

\* event_handler (lines 37-56) on one event: the counter and the bits it
\* leaves, and whether it called esp_wifi_connect.  The handler is registered
\* for every WIFI_EVENT id and does nothing on the ids it does not name.
event_handler(event, retry, bits) ==
    IF event = WIFI_EVENT_STA_START
    THEN [retry |-> retry, bits |-> bits, connect |-> TRUE]
    ELSE IF event = WIFI_EVENT_STA_DISCONNECTED
    THEN IF MayRetry(retry)
         THEN [retry |-> retry + 1, bits |-> bits, connect |-> TRUE]
         ELSE [retry |-> retry, bits |-> bits \cup {WIFI_FAIL_BIT},
               connect |-> FALSE]
    ELSE IF event = IP_EVENT_STA_GOT_IP
    THEN [retry |-> 0, bits |-> bits \cup {WIFI_CONNECTED_BIT},
          connect |-> FALSE]
    ELSE [retry |-> retry, bits |-> bits, connect |-> FALSE]

\* The events the driver can post with the station in state link: the start
\* event once after esp_wifi_start; association or failure of an attempt;
\* an address or a loss of the association; the loss of an established link.
Posted(link) ==
    CASE link = "started" -> {WIFI_EVENT_STA_START}
      [] link = "connecting" ->
             {WIFI_EVENT_STA_CONNECTED, WIFI_EVENT_STA_DISCONNECTED}
      [] link = "associated" ->
             {IP_EVENT_STA_GOT_IP, WIFI_EVENT_STA_DISCONNECTED}
      [] link = "up" -> {WIFI_EVENT_STA_DISCONNECTED}
      [] OTHER -> {}

\* The station after the driver posted event, before the handler runs.
LinkAfter(link, event) ==
    CASE event = WIFI_EVENT_STA_START -> link
      [] event = WIFI_EVENT_STA_CONNECTED -> "associated"
      [] event = WIFI_EVENT_STA_DISCONNECTED -> "down"
      [] event = IP_EVENT_STA_GOT_IP -> "up"

\* wifi_connect up to the wait (lines 191-227): esp_wifi_start starts the
\* station, which posts the start event.
WifiConnectCall ==
    /\ wifi_pc = "idle"
    /\ wifi_pc' = "waiting"
    /\ wifi_link' = "started"
    /\ UNCHANGED <<s_retry_num, event_bits, wifi_ret, last_event, events,
                   got_ips, reconnects, gatewayVars>>

\* The event loop task runs event_handler on one posted event.
Dispatch(event) ==
    /\ event \in Posted(wifi_link)
    /\ event = IP_EVENT_STA_GOT_IP => got_ips < MaxGotIp
    /\ LET h == event_handler(event, s_retry_num, event_bits)
       IN /\ s_retry_num' = h.retry
          /\ event_bits' = h.bits
          /\ wifi_link' = IF h.connect THEN "connecting"
                          ELSE LinkAfter(wifi_link, event)
          /\ reconnects' =
                 IF event = IP_EVENT_STA_GOT_IP THEN 0
                 ELSE IF event = WIFI_EVENT_STA_DISCONNECTED /\ h.connect
                      THEN reconnects + 1
                      ELSE reconnects
    /\ last_event' = event
    /\ events' = events + 1
    /\ got_ips' = IF event = IP_EVENT_STA_GOT_IP THEN got_ips + 1 ELSE got_ips
    /\ UNCHANGED <<wifi_pc, wifi_ret, gatewayVars>>

StaStart == Dispatch(WIFI_EVENT_STA_START)
StaConnected == Dispatch(WIFI_EVENT_STA_CONNECTED)
StaDisconnected == Dispatch(WIFI_EVENT_STA_DISCONNECTED)
GotIp == Dispatch(IP_EVENT_STA_GOT_IP)

\* The wait of wifi_connect ends (lines 229-243): either bit wakes it, no bit
\* is cleared, and the connected bit is tested first.
WifiConnectReturn ==
    /\ wifi_pc = "waiting"
    /\ event_bits # {}
    /\ wifi_pc' = "returned"
    /\ wifi_ret' = IF WIFI_CONNECTED_BIT \in event_bits THEN 0 ELSE -1
    /\ UNCHANGED <<s_retry_num, event_bits, wifi_link, last_event, events,
                   got_ips, reconnects, gatewayVars>>

NextWifi ==
    \/ WifiConnectCall
    \/ StaStart
    \/ StaConnected
    \/ StaDisconnected
    \/ GotIp
    \/ WifiConnectReturn

\* An attempt under way comes to an end: the driver posts the outcome of
\* every esp_wifi_connect and the event loop task dispatches it.
AttemptEnds ==
    /\ wifi_link \in {"started", "connecting", "associated"}
    /\ \E event \in Posted(wifi_link) : Dispatch(event)

SpecWifi == Init /\ [][NextWifi]_vars

\* The event loop task and the task blocked in wifi_connect are scheduled;
\* an established link need never be lost.
SpecWifiLive ==
    /\ SpecWifi
    /\ WF_vars(AttemptEnds)
    /\ WF_vars(WifiConnectReturn)

(***************************************************************************)
(* Vocabulary of the properties.                                           *)
(***************************************************************************)
\* The client of the datagram in the receive buffer.
LastMac == client_mac(packet.chaddr)
Replied == pc = "listening" /\ outcome = "replied"
\* The options length the decoder was given.
DeclaredLen == len - header_size
\* The reservation-table entries (indexes) that carry `mac'.
EntriesOf(mac) == {i \in 0..(reservation_count - 1) : reservation_table[i].mac = mac}
\* The entry of `mac' that comes first in table order.
IsFirstEntryOf(i, mac) ==
    /\ i \in EntriesOf(mac)
    /\ \A j \in EntriesOf(mac) : i <= j
LiveSlots == {i \in LeaseSlots : dynamic_leases[i].ip # IPADDR_ANY}
TableFull == LiveSlots = LeaseSlots
HasLease(mac) == \E i \in LiveSlots : dynamic_leases[i].mac = mac
\* y = x + 1 in host byte order, for addresses a.b.c.d below a.255.255.255.
Low24(x) == x[2] * 65536 + x[3] * 256 + x[4]
HostSucc(x, y) == x[1] = y[1] /\ Low24(y) = Low24(x) + 1

(***************************************************************************)
(* Properties of address resolution, checked under Spec.                   *)
(***************************************************************************)

C2_SameAddressAgain ==
    [][(pc = "listening" /\ outcome' = "replied"
        /\ EntriesOf(LastMac') = {} /\ offered[LastMac'] # IPADDR_ANY)
           => offered_ip' = offered[LastMac']]_vars

\* C3 as stated: no address is offered to two different client MACs.
C3_NoSharedAddress ==
    \A m1 \in AllMacs : \A m2 \in AllMacs :
        (m1 # m2 /\ offered[m1] # IPADDR_ANY) => offered[m1] # offered[m2]

\* C4 as stated: when all 32 slots are live and the server answers a MAC that has
\* neither a reservation nor a dynamic entry, the cursor is not advanced and the
\* address offered is recorded in the lease table.
C4_NoSilentOverflow ==
    [][(pc = "listening" /\ outcome' = "replied" /\ TableFull
        /\ EntriesOf(LastMac') = {} /\ ~HasLease(LastMac'))
           => /\ dynamic_ip_current' = dynamic_ip_current
              /\ \E i \in LeaseSlots :
                    dynamic_leases'[i] = [mac |-> LastMac', ip |-> offered_ip']]_vars

\* C5: the dynamic table never holds two live entries with the same MAC, nor two
\* live entries of different MACs with the same address.
C5_LeaseTableUnique ==
    \A i \in LiveSlots : \A j \in LiveSlots :
        i # j => /\ dynamic_leases[i].mac # dynamic_leases[j].mac
                 /\ dynamic_leases[i].ip # dynamic_leases[j].ip

\* All 32 slots are live, one of them the all-zero MAC's, and a further client
\* has been answered since.
C5_Witness ==
    /\ TableFull
    /\ HasLease(ZeroMac)
    /\ mints > MAX_DYNAMIC_LEASES

\* C6: the first answer to a MAC that is not in the reservation table offers the
\* cursor's value and moves the cursor up by exactly one in host order; that
\* address is above every address offered before to such MACs, and no live
\* dynamic entry holds it.
C6_MintFromCursor ==
    [][(pc = "listening" /\ outcome' = "replied"
        /\ EntriesOf(LastMac') = {} /\ offered[LastMac'] = IPADDR_ANY)
           => /\ offered_ip' = dynamic_ip_current
              /\ HostSucc(dynamic_ip_current, dynamic_ip_current')
              /\ \A m \in AllMacs :
                    (EntriesOf(m) = {} /\ offered[m] # IPADDR_ANY)
                        => HostLess(offered[m], offered_ip')
              /\ \A i \in LiveSlots : dynamic_leases[i].ip # offered_ip']_vars

\* The third new client has just been answered with 192.168.4.4.
C6_Witness ==
    /\ Replied
    /\ EntriesOf(LastMac) = {}
    /\ mints = 3
    /\ offered_ip = inet_addr(192, 168, 4, 4)
    /\ dynamic_ip_current = inet_addr(192, 168, 4, 5)
    /\ HasLease(LastMac)

\* C7: from an empty dynamic table with the cursor at 192.168.4.2, a DISCOVER of
\* a MAC without a reservation is answered with an OFFER of 192.168.4.2, and a
\* later REQUEST of the MAC holding that lease with an ACK of 192.168.4.2.
C7_DiscoverThenRequest ==
    [][/\ (pc = "listening" /\ outcome' = "replied"
           /\ dynamic_leases = EmptyLeases /\ dynamic_ip_current = PoolStart
           /\ EntriesOf(LastMac') = {} /\ msg_type' = DHCPDISCOVER)
              => LET r == ReplyDatagram(packet', offered_ip', msg_type')
                 IN  SentType(r) = DHCPOFFER /\ r.msg.yiaddr = PoolStart
       /\ (pc = "listening" /\ outcome' = "replied"
           /\ dynamic_leases[0] = [mac |-> LastMac', ip |-> PoolStart]
           /\ EntriesOf(LastMac') = {} /\ msg_type' = DHCPREQUEST)
              => LET r == ReplyDatagram(packet', offered_ip', msg_type')
                 IN  SentType(r) = DHCPACK /\ r.msg.yiaddr = PoolStart]_vars

\* AA:BB:CC:DD:EE:01 holds 192.168.4.2 and its REQUEST has just been acknowledged
\* with it, other clients having been answered in between.
C7_Witness ==
    /\ Replied
    /\ LastMac = FreshMac(1)
    /\ msg_type = DHCPREQUEST
    /\ dynamic_leases[0] = [mac |-> FreshMac(1), ip |-> PoolStart]
    /\ SentType(SentReply) = DHCPACK
    /\ SentReply.msg.yiaddr = PoolStart
    /\ mints >= 2

(***************************************************************************)
(* Properties of the option decoder, checked under SpecDecode.             *)
(***************************************************************************)
\* The declared options: the first DeclaredLen bytes of the options area.
DeclaredBytes == [k \in 1..DeclaredLen |-> packet.options[k - 1]]
StartsWithCookie ==
    DeclaredLen >= 4 /\ \A k \in 1..4 : packet.options[k - 1] = MagicCookie[k]

\* The TLV walk of the specification over a byte sequence, from position i
\* (1-based): pad advances 1, End stops, another type advances 2 + length; the
\* value of the first option 53 of length 1, when the sequence holds it.
RECURSIVE RefWalk(_, _)
RefWalk(bytes, i) ==
    IF i > Len(bytes) THEN NotFound
    ELSE IF bytes[i] = 255 THEN NotFound
    ELSE IF bytes[i] = 0 THEN RefWalk(bytes, i + 1)
    ELSE IF i + 1 > Len(bytes) THEN NotFound
    ELSE IF bytes[i] = 53 /\ bytes[i + 1] = 1
         THEN (IF i + 2 <= Len(bytes) THEN bytes[i + 2] ELSE NotFound)
    ELSE RefWalk(bytes, i + 2 + bytes[i + 1])

\* C8 as stated: every index the decoder reads is below the declared length.
C8_ReadsBelowLength ==
    pc = "decoded" => \A i \in reads : i < DeclaredLen

\* C9: with a declared length below 4 the decoder returns "not found" and reads
\* nothing; with four bytes that are not the cookie it returns "not found" and
\* reads no index above 3.
C9_RejectsBadCookie ==
    (pc = "decoded" /\ ~StartsWithCookie)
        => /\ msg_type = NotFound
           /\ reads \subseteq 0..3
           /\ DeclaredLen < 4 => reads = {}

\* The last cookie byte is wrong and a well-formed DISCOVER option follows it.
C9_Witness ==
    /\ pc = "decoded"
    /\ DeclaredLen = 7
    /\ packet.options[3] = 0
    /\ packet.options[4] = 53 /\ packet.options[5] = 1 /\ packet.options[6] = 1
    /\ msg_type = NotFound
    /\ reads = {0, 1, 2, 3}

\* C10 as stated: on options that start with the cookie the decoder returns what
\* the reference walk returns.
C10_MatchesReferenceWalk ==
    (pc = "decoded" /\ StartsWithCookie) => msg_type = RefWalk(DeclaredBytes, 5)

(***************************************************************************)
(* Properties of the server loop, checked under SpecLoop.                  *)
(***************************************************************************)

\* C11: every reply carries option 53 with the value 2 or 5, and the value 2
\* exactly when the decoded type of the request is DISCOVER (1).
C11_OfferOnlyForDiscover ==
    Replied => /\ SentType(SentReply) \in {2, 5}
               /\ SentType(SentReply) = 2 <=> msg_type = 1
               /\ SentReply.msg.options[14] = 53 /\ SentReply.msg.options[15] = 1

\* A RELEASE (type 7) has just been answered with an ACK.
C11_Witness ==
    /\ Replied
    /\ msg_type = DHCPRELEASE
    /\ packet.options[6] = DHCPRELEASE
    /\ SentType(SentReply) = 5

\* C12: a pass on a datagram of fewer than 236 bytes makes no call to sendto or
\* to the link output and leaves the dynamic lease table and the cursor as they
\* were.
C12_ShortDatagramDropped ==
    [][(pc = "listening" /\ len' >= 0 /\ len' < header_size)
          => /\ out' = <<>>
             /\ outcome' = "too_short"
             /\ UNCHANGED <<dynamic_leases, dynamic_ip_current>>]_vars

\* A datagram one byte short of the header has just been dropped while the
\* options area of the buffer still held a whole DISCOVER and both leases of
\* the unreserved clients existed.
C12_Witness ==
    /\ pc = "listening"
    /\ len = header_size - 1
    /\ outcome = "too_short"
    /\ out = <<>>
    /\ \A k \in 0..7 : packet.options[k] = TplDiscover.opts[k + 1]
    /\ mints = 2

\* C13 as stated: a pass on a datagram of at least 236 bytes whose declared
\* options do not start with the cookie, or hold no message type in the
\* reference walk, sends nothing and leaves the lease table and cursor as they
\* were.
C13_UndecodableDropped ==
    [][(pc = "listening" /\ len' >= header_size
        /\ (~StartsWithCookie' \/ RefWalk(DeclaredBytes', 5) = NotFound))
          => /\ out' = <<>>
             /\ UNCHANGED <<dynamic_leases, dynamic_ip_current>>]_vars

\* C14: every step the task takes from its receive loop is a whole pass, which
\* ends in one of the four ways a pass can end (receive error, short datagram,
\* undecodable datagram, reply handed to sendto and to the link output, each
\* succeeding or failing) with the task at recvfrom again.
C14_LoopNeverEnds ==
    [][pc = "listening"
          => /\ pc' = "listening"
             /\ outcome' \in {"recv_error", "too_short", "no_type", "replied"}
             /\ len' < 0 <=> outcome' = "recv_error"]_vars

\* The task is at recvfrom again after a pass in which both sendto and the link
\* output failed, with both dynamic leases minted.
C14_Witness ==
    /\ Replied
    /\ out = <<[what |-> "sendto", ok |-> FALSE], [what |-> "linkoutput", ok |-> FALSE]>>
    /\ mints = 2

\* C17: the flags of every transmitted reply are 80 00.
C17_BroadcastFlagForced ==
    Replied => SentReply.msg.flags = <<128, 0>>

\* A request with the flags 01 02 has just been answered.
C17_Witness ==
    /\ Replied
    /\ packet.flags = <<1, 2>>
    /\ SentReply.msg.flags = <<128, 0>>

\* The position (1-based) of the End option in an options area, walking the
\* options after the cookie.
RECURSIVE EndOf(_, _)
EndOf(opts, i) ==
    IF opts[i] = 255 THEN i
    ELSE IF opts[i] = 0 THEN EndOf(opts, i + 1)
    ELSE EndOf(opts, i + 2 + opts[i + 1])

\* C18: the builder's length is 236 plus the number of option bytes up to and
\* including End, the transmitted length is that length raised to 300, and
\* every transmitted byte after End is zero.
C18_LengthAndPadding ==
    Replied =>
        LET sent == SentReply
            e == EndOf(sent.msg.options, 5)
        IN  /\ sent.built_len = 236 + e
            /\ sent.len = (IF sent.built_len < 300 THEN 300 ELSE sent.built_len)
            /\ Len(sent.msg.options) = sent.len - 236
            /\ \A k \in (e + 1)..Len(sent.msg.options) : sent.msg.options[k] = 0

\* A reply of 295 built bytes has just been transmitted as 300 bytes.
C18_Witness ==
    /\ Replied
    /\ SentReply.built_len = 295
    /\ SentReply.len = 300
    /\ Len(SentReply.msg.options) = 64
    /\ msg_type = DHCPREQUEST

\* C19: the transmitted reply is a function of the request in the buffer, the
\* offered address and the decoded type alone: whatever was received and sent
\* before, it is ReplyDatagram of the three.
C19_ReplyDeterministic ==
    Replied => SentReply.msg = ReplyDatagram(packet, offered_ip, msg_type).msg

\* The REQUEST of the first unreserved client has just been answered after both
\* dynamic leases were minted (so after replies to other clients).
C19_Witness ==
    /\ Replied
    /\ LastMac = FreshMac(1)
    /\ msg_type = DHCPREQUEST
    /\ offered_ip = PoolStart
    /\ mints = 2
    /\ SentReply.msg.yiaddr = PoolStart

(***************************************************************************)
(* Properties of the reply builder, checked under SpecBuild.               *)
(***************************************************************************)

\* C15: after build_dhcp_reply the reply has op 2, the request's htype, hlen,
\* xid and 16 bytes of chaddr, zero hops, secs, ciaddr, giaddr, sname and file,
\* the offered address as yiaddr and 192.168.4.1 as siaddr.
C15_HeaderFields ==
    pc = "built" =>
        /\ reply.op = 2
        /\ reply.htype = packet.htype /\ reply.hlen = packet.hlen
        /\ reply.xid = packet.xid
        /\ Len(reply.chaddr) = 16 /\ reply.chaddr = packet.chaddr
        /\ reply.hops = 0 /\ reply.secs = <<0, 0>>
        /\ reply.ciaddr = <<0, 0, 0, 0>> /\ reply.giaddr = <<0, 0, 0, 0>>
        /\ reply.sname = [k \in 1..64 |-> 0] /\ reply.file = [k \in 1..128 |-> 0]
        /\ reply.yiaddr = offered_ip
        /\ reply.siaddr = <<192, 168, 4, 1>>

\* The reply to a relayed request with sixteen bytes FF of chaddr has been built
\* for 192.168.4.50 in a buffer that was not cleared.
C15_Witness ==
    /\ pc = "built"
    /\ packet.hops = 3 /\ packet.sname[1] = 65 /\ packet.giaddr = inet_addr(10, 0, 0, 3)
    /\ packet.chaddr = Fill(16, 255)
    /\ packet.htype = 6 /\ packet.hlen = 16
    /\ offered_ip = ScenarioIp
    /\ reply.yiaddr = ScenarioIp
    /\ reply.options[312] = 1

C20_SecondResolveIdempotent ==
    [][(Replied /\ outcome' = "replied" /\ LastMac' = LastMac)
          => /\ offered_ip' = offered_ip
             /\ UNCHANGED <<dynamic_leases, dynamic_ip_current>>]_vars

(***************************************************************************)
(* Properties of the lease state across passes, checked under Spec.        *)
(***************************************************************************)

TransmitFailed == \E k \in 1..Len(out) : ~out[k].ok

\* C22 as stated: when sendto or the link output fails in a pass that resolved
\* a MAC having neither a reservation nor a dynamic entry, the task is at
\* recvfrom again, the lease table holds an entry of that MAC with the offered
\* address and the cursor is one above it; and the next datagram answered, when
\* it is of the same MAC, is offered the same address.
C22_FailureKeepsLease ==
    [][/\ (pc = "listening" /\ outcome' = "replied" /\ TransmitFailed'
           /\ EntriesOf(LastMac') = {} /\ ~HasLease(LastMac'))
              => /\ pc' = "listening"
                 /\ \E i \in LeaseSlots :
                       dynamic_leases'[i] = [mac |-> LastMac', ip |-> offered_ip']
                 /\ HostSucc(offered_ip', dynamic_ip_current')
       /\ (Replied /\ TransmitFailed /\ outcome' = "replied" /\ LastMac' = LastMac)
              => offered_ip' = offered_ip]_vars

(***************************************************************************)
(* Start-up, checked under SpecBoot.                                       *)
(***************************************************************************)

\* C23 as stated: when the task's setup has failed (no AP address, no socket or
\* no bind), no pass of the receive loop has run, nothing has been sent, and
\* app_main, which created the task, does not go on to announce the gateway
\* ready.
C23_SetupFailureReported ==
    pc = "deleted"
        => /\ outcome = "none"
           /\ out = <<>>
           /\ app_pc # "ready"

(***************************************************************************)
(* Properties of the loaded reservation table, checked under SpecLoad.     *)
(***************************************************************************)
\* An array element that is a reservation: two strings, a MAC of six fields and
\* an address that parses.
WellFormed(e) == e.hasStrings /\ e.macOk /\ e.ipOk
WellFormedEntries == SelectSeq(loaded_file.entries, WellFormed)

C25_NoSharedMac ==
    pc = "loaded"
        => \A i \in 0..(reservation_count - 1) : \A j \in 0..(reservation_count - 1) :
              i # j => reservation_table[i].mac # reservation_table[j].mac

(***************************************************************************)
(* Properties of what is transmitted, checked under SpecTransmit.          *)
(***************************************************************************)

\* C26: the frame announced for an offered address and a client MAC has the
\* Ethernet destination ff:ff:ff:ff:ff:ff, the client MAC (first six bytes of
\* chaddr) as Ethernet source, EtherType 08 06, hardware type 00 01, protocol
\* 08 00, lengths 6 and 4, opcode 00 02, and the client MAC and the offered
\* address both as sender and as target.
C26_GratuitousArpFields ==
    pc = "sent" =>
        /\ SentArp.dest = <<255, 255, 255, 255, 255, 255>>
        /\ SentArp.src = SubSeq(packet.chaddr, 1, 6)
        /\ SentArp.type = <<8, 6>>
        /\ SentArp.hwtype = <<0, 1>>
        /\ SentArp.proto = <<8, 0>>
        /\ SentArp.hwlen = 6
        /\ SentArp.protolen = 4
        /\ SentArp.opcode = <<0, 2>>
        /\ SentArp.shwaddr = SubSeq(packet.chaddr, 1, 6)
        /\ SentArp.sipaddr = SentReply.msg.yiaddr
        /\ SentArp.thwaddr = SubSeq(packet.chaddr, 1, 6)
        /\ SentArp.tipaddr = SentReply.msg.yiaddr

\* 10.200.0.255 has been announced for the client AA:BB:CC:DD:EE:02 whose
\* chaddr carried other bytes after the MAC.
C26_Witness ==
    /\ pc = "sent"
    /\ packet.chaddr = ResMacA \o <<1, 2, 3, 4, 5, 6, 7, 8, 9, 10>>
    /\ offered_ip = <<10, 200, 0, 255>>
    /\ SentArp.src = <<170, 187, 204, 221, 238, 2>>
    /\ SentArp.tipaddr = <<10, 200, 0, 255>>

\* C27: every reply handed to sendto goes to 255.255.255.255, UDP port 68, from
\* the socket bound to port 67, whatever ciaddr, giaddr and flags the request
\* carried.
C27_BroadcastToPort68 ==
    pc = "sent" =>
        /\ SentReply.dst = <<255, 255, 255, 255>>
        /\ SentReply.port = 68
        /\ SentReply.src_port = 67

\* A request with ciaddr 192.168.4.77, giaddr 10.0.0.3 and the broadcast flag
\* clear has been answered by broadcast.
C27_Witness ==
    /\ pc = "sent"
    /\ packet.ciaddr = <<192, 168, 4, 77>>
    /\ packet.giaddr = <<10, 0, 0, 3>>
    /\ packet.flags = <<0, 0>>
    /\ SentReply.dst = <<255, 255, 255, 255>>
    /\ SentReply.port = 68

(***************************************************************************)
(* Who writes the tables, checked under Spec (C28, C29) and SpecBoot (C30). *)
(***************************************************************************)

\* C28: no step changes or clears a live entry of the dynamic lease table: a
\* slot whose ip is not 0 keeps its MAC and its address.
C28_LeasesPermanent ==
    [][\A i \in LiveSlots : dynamic_leases'[i] = dynamic_leases[i]]_vars

\* All 32 slots are live, the first still holding 192.168.4.2 and the last
\* 192.168.4.33, after a further client without an entry has been answered.
C28_Witness ==
    /\ Replied
    /\ TableFull
    /\ mints > MAX_DYNAMIC_LEASES
    /\ EntriesOf(LastMac) = {} /\ ~HasLease(LastMac)
    /\ dynamic_leases[0].ip = inet_addr(192, 168, 4, 2)
    /\ dynamic_leases[31].ip = inet_addr(192, 168, 4, 33)

\* C29: no pass of the server loop, however it ends, changes the reservation
\* table or reservation_count.
C29_ReservationsReadOnly ==
    [][pc = "listening" => UNCHANGED <<reservation_table, reservation_count>>]_vars

\* A pass has answered a client from its reservation with the table of the
\* file still in place.
C29_Witness ==
    /\ Replied
    /\ loaded_file = FileMixed
    /\ LastMac = ResMacB
    /\ reservation_count = 3
    /\ reservation_table[0] = [mac |-> ResMacB, reserved_ip |-> inet_addr(192, 168, 4, 3)]
    /\ reservation_table[2] = [mac |-> ResMacC, reserved_ip |-> IPADDR_ANY]
    /\ mints >= 1

\* The server task exists: xTaskCreate has been called.
TaskCreated == pc \in {"started", "listening", "deleted"}

\* C30: the reservation table and count change only in app_main's load, and the
\* cursor is seeded only in the step that ends with the task's creation, both
\* before the task exists; once it exists, every step that changes the dynamic
\* lease table or the cursor is a pass of the task's loop that answers a
\* datagram, and no step of app_main (which goes on to start the other
\* services) changes the reservation table, the count, the lease table or the
\* cursor.
C30_SingleWriter ==
    [][/\ (reservation_table' # reservation_table \/ reservation_count' # reservation_count)
             => (pc = "boot" /\ pc' = "loaded")
       /\ (~TaskCreated /\ dynamic_ip_current' # dynamic_ip_current)
             => (pc = "loaded" /\ pc' = "started" /\ dynamic_ip_current' = PoolStart)
       /\ ~TaskCreated => dynamic_leases' = dynamic_leases
       /\ (TaskCreated /\ (dynamic_leases' # dynamic_leases
                            \/ dynamic_ip_current' # dynamic_ip_current))
             => (pc = "listening" /\ outcome' = "replied" /\ app_pc' = app_pc)
       /\ app_pc' # app_pc
             => UNCHANGED <<reservation_table, reservation_count, dynamic_leases,
                            dynamic_ip_current>>]_vars

\* app_main has loaded one reservation, created the task and started the other
\* services, and the task has minted two leases.
C30_Witness ==
    /\ Replied
    /\ app_pc = "ready"
    /\ loaded_file = FileScenario
    /\ reservation_count = 1
    /\ mints = 2
    /\ dynamic_ip_current = inet_addr(192, 168, 4, 4)
    /\ HasLease(FreshMac(1)) /\ HasLease(FreshMac(2))

(***************************************************************************)
(* Minting, checked under Spec.                                            *)
(***************************************************************************)
FreeSlots == LeaseSlots \ LiveSlots

\* C31: a pass that answers a MAC with neither a reservation nor a dynamic
\* entry while a slot is free stores that MAC with the cursor's value in the
\* first slot whose ip is 0, offers that value, moves the cursor up by exactly
\* one in host order and leaves every other slot as it was.
C31_MintIntoFirstFreeSlot ==
    [][(pc = "listening" /\ outcome' = "replied" /\ ~TableFull
        /\ EntriesOf(LastMac') = {} /\ ~HasLease(LastMac'))
          => /\ offered_ip' = dynamic_ip_current
             /\ HostSucc(dynamic_ip_current, dynamic_ip_current')
             /\ \A i \in LeaseSlots :
                   dynamic_leases'[i] =
                       IF i \in FreeSlots /\ \A j \in FreeSlots : i <= j
                       THEN [mac |-> LastMac', ip |-> dynamic_ip_current]
                       ELSE dynamic_leases[i]]_vars

\* The fifth new client has just been given slot 4 and 192.168.4.6, with slot 5
\* still free.
C31_Witness ==
    /\ Replied
    /\ mints = 5
    /\ EntriesOf(LastMac) = {}
    /\ dynamic_leases[4] = [mac |-> LastMac, ip |-> inet_addr(192, 168, 4, 6)]
    /\ dynamic_leases[5] = EmptyLease
    /\ dynamic_ip_current = inet_addr(192, 168, 4, 7)

(***************************************************************************)
(* Order of the steps of a pass, checked under SpecOrder.                  *)
(***************************************************************************)

C33_OfferedInsideSubnet ==
    (Replied /\ EntriesOf(LastMac) = {})
        => /\ SubSeq(offered_ip, 1, 3) = <<192, 168, 4>>
           /\ offered_ip[4] \in 2..254

(***************************************************************************)
(* The lease table against the cursor, checked under Spec.                 *)
(***************************************************************************)

\* C34: the lease table has its 32 slots and no other; every live entry holds
\* an address that is, in host byte order, at least 192.168.4.2 and below the
\* cursor.
C34_LiveBelowCursor ==
    /\ DOMAIN dynamic_leases = 0..31
    /\ Cardinality(LiveSlots) <= 32
    /\ \A i \in LiveSlots :
          /\ ~HostLess(dynamic_leases[i].ip, <<192, 168, 4, 2>>)
          /\ HostLess(dynamic_leases[i].ip, dynamic_ip_current)

\* All 32 slots are live, from 192.168.4.2 to 192.168.4.33, and three more
\* addresses have been minted since and recorded nowhere.
C34_Witness ==
    /\ pc = "listening"
    /\ Cardinality(LiveSlots) = 32
    /\ dynamic_leases[0].ip = <<192, 168, 4, 2>>
    /\ dynamic_leases[31].ip = <<192, 168, 4, 33>>
    /\ dynamic_ip_current = <<192, 168, 4, 37>>

(***************************************************************************)
(* Bytes left in the receive buffer, checked under SpecStale.              *)
(***************************************************************************)
\* The options area of the receive buffer with every byte that the last
\* datagram did not bring replaced by `f'.
OptionsOver(f) ==
    [k \in DOMAIN packet.options |-> IF k < DeclaredLen THEN packet.options[k] ELSE f]

\* C35 as stated: the way a pass on a datagram of at least 236 bytes ends, and
\* the type of the reply, are those of the same datagram received into a
\* buffer holding any other bytes (all 0, all 1) behind it.
C35_StaleBytesIgnored ==
    [][(pc = "listening" /\ len' >= header_size)
          => \A f \in {0, 1} :
                LET t == get_dhcp_message_type(OptionsOver(f)', DeclaredLen').ret
                IN  /\ outcome' = PassKind(len', t)
                    /\ outcome' = "replied" => reply'.options[16] = ReplyType(t)]_vars

(***************************************************************************)
(* Reservations of 0.0.0.0 and MACs named twice, checked under             *)
(* SpecReserved.                                                           *)
(***************************************************************************)
\* The first entry of `mac' in the reservation table reserves 0.0.0.0.
ReservesNothing(mac) ==
    \E i \in EntriesOf(mac) :
        IsFirstEntryOf(i, mac) /\ reservation_table[i].reserved_ip = IPADDR_ANY

\* C36: for a MAC whose (first) reservation entry holds 0.0.0.0 the lookup
\* returns 0.0.0.0, the value it returns for a MAC without an entry, and a pass
\* that answers such a MAC resolves it as one without a reservation: it offers
\* the address of its dynamic entry and changes nothing, or, when it has none,
\* offers the cursor's value, records it (a slot being free) and moves the
\* cursor up by one.
C36_ZeroReservationIsNone ==
    [][(pc = "listening" /\ outcome' = "replied" /\ ReservesNothing(LastMac'))
          => /\ get_reserved_ip_for_client(reservation_table, reservation_count, LastMac')
                   = get_reserved_ip_for_client(EmptyReservationTable, 0, LastMac')
             /\ IF HasLease(LastMac')
                THEN /\ \E i \in LiveSlots :
                           dynamic_leases[i] = [mac |-> LastMac', ip |-> offered_ip']
                     /\ UNCHANGED <<dynamic_leases, dynamic_ip_current>>
                ELSE /\ offered_ip' = dynamic_ip_current
                     /\ HostSucc(dynamic_ip_current, dynamic_ip_current')
                     /\ ~TableFull => \E i \in FreeSlots :
                           dynamic_leases'[i] = [mac |-> LastMac', ip |-> offered_ip']]_vars

\* AA:BB:CC:DD:EE:06, reserved to 0.0.0.0 and then to 192.168.4.52, has been
\* given the second address of the pool and has just been answered with it
\* again.
C36_Witness ==
    /\ Replied
    /\ loaded_file = FileZeroFirst
    /\ LastMac = ResMacC
    /\ msg_type = DHCPREQUEST
    /\ offered_ip = <<192, 168, 4, 3>>
    /\ dynamic_leases[1] = [mac |-> ResMacC, ip |-> <<192, 168, 4, 3>>]
    /\ dynamic_ip_current = <<192, 168, 4, 4>>

\* C37: when the file holds two well-formed entries with the same MAC and
\* different addresses (both among the ten the table takes), the table holds
\* both, in file order, the lookup for that MAC returns the address of the one
\* that comes first, and every answer to that MAC offers that address when it
\* is not 0.0.0.0.
C37_FirstOfTwoWins ==
    (pc # "boot" /\ loaded_file.readable)
        => \A j \in 1..Len(WellFormedEntries) : \A k \in 1..Len(WellFormedEntries) :
              (j < k /\ k <= 10
               /\ WellFormedEntries[j].mac = WellFormedEntries[k].mac
               /\ WellFormedEntries[j].ip # WellFormedEntries[k].ip
               /\ \A h \in 1..(j - 1) : WellFormedEntries[h].mac # WellFormedEntries[j].mac)
                 => LET mac == WellFormedEntries[j].mac
                        first == WellFormedEntries[j].ip
                    IN  /\ k <= reservation_count
                        /\ reservation_table[j - 1] = [mac |-> mac, reserved_ip |-> first]
                        /\ reservation_table[k - 1] =
                              [mac |-> mac, reserved_ip |-> WellFormedEntries[k].ip]
                        /\ get_reserved_ip_for_client(reservation_table,
                                                      reservation_count, mac) = first
                        /\ (Replied /\ LastMac = mac /\ first # IPADDR_ANY)
                              => /\ offered_ip = first
                                 /\ reply.yiaddr = first

\* AA:BB:CC:DD:EE:04, reserved to 192.168.4.51 and then to 192.168.4.3, has
\* been answered more than once and has just been offered 192.168.4.51, with a
\* dynamic lease minted for another client in between.
C37_Witness ==
    /\ Replied
    /\ loaded_file = FileZeroFirst
    /\ LastMac = ResMacB
    /\ msg_type = DHCPREQUEST
    /\ Cardinality(EntriesOf(ResMacB)) = 2
    /\ offered_ip = <<192, 168, 4, 51>>
    /\ reply.yiaddr = <<192, 168, 4, 51>>
    /\ mints >= 1

(***************************************************************************)
(* A load that fails, checked under SpecFail.                              *)
(***************************************************************************)

\* C38: when the file cannot be opened or what was read of it is not the JSON
\* expected, load_dhcp_reservations returns ESP_FAIL and leaves the reservation
\* table and reservation_count as they were; app_main goes on to create the
\* task, and every pass that answers a client then finds no reservation and
\* offers the address of the client's dynamic entry or, when it has none, the
\* cursor's value.
C38_FailedLoadLeavesTable ==
    [][/\ (pc = "boot" /\ ~loaded_file'.readable)
             => /\ load_dhcp_reservations(loaded_file', reservation_table,
                                          reservation_count).ret = "ESP_FAIL"
                /\ UNCHANGED <<reservation_table, reservation_count>>
                /\ pc' = "loaded"
       /\ (pc = "loaded" /\ ~loaded_file.readable) => pc' = "started"
       /\ (pc = "listening" /\ outcome' = "replied" /\ ~loaded_file.readable)
             => /\ get_reserved_ip_for_client(reservation_table, reservation_count,
                                              LastMac') = IPADDR_ANY
                /\ IF HasLease(LastMac')
                   THEN \E i \in LiveSlots :
                           dynamic_leases[i] = [mac |-> LastMac', ip |-> offered_ip']
                   ELSE offered_ip' = dynamic_ip_current]_vars

\* The file was too long to be read whole: nothing of it is in the table, the
\* gateway is up and AA:BB:CC:DD:EE:02 has been given a dynamic address.
C38_Witness ==
    /\ Replied
    /\ loaded_file = FileTooLong
    /\ Len(loaded_file.entries) >= 13
    /\ reservation_count = 0
    /\ reservation_table = EmptyReservationTable
    /\ app_pc = "ready"
    /\ LastMac = ResMacA
    /\ HasLease(ResMacA)
    /\ mints = 3

(***************************************************************************)
(* C39: in the client's WiFi event handler the retry counter stays within  *)
(* 0..ESP_MAXIMUM_RETRY.  On a station-disconnected event the handler      *)
(* reconnects and increments the counter if and only if the counter is     *)
(* below the maximum; otherwise it sets the FAIL bit, leaves the counter   *)
(* alone and does not reconnect.  A got-IP event resets the counter to 0   *)
(* and sets the CONNECTED bit.  Hence at most ESP_MAXIMUM_RETRY reconnect  *)
(* attempts are made between two got-IP events; and once the counter is at *)
(* the maximum with an attempt under way, the FAIL bit is set unless that  *)
(* attempt gets an address, so that a waiting wifi_connect returns.        *)
(***************************************************************************)
C39_RetryWithinLimit ==
    /\ [](/\ s_retry_num \in 0..ESP_MAXIMUM_RETRY
          /\ reconnects \in 0..ESP_MAXIMUM_RETRY)
    /\ [][events' = events + 1 =>
            /\ last_event' = WIFI_EVENT_STA_DISCONNECTED =>
                   IF s_retry_num < ESP_MAXIMUM_RETRY
                   THEN /\ s_retry_num' = s_retry_num + 1
                        /\ wifi_link' = "connecting"
                        /\ reconnects' = reconnects + 1
                        /\ event_bits' = event_bits
                   ELSE /\ s_retry_num' = s_retry_num
                        /\ wifi_link' = "down"
                        /\ reconnects' = reconnects
                        /\ event_bits' = event_bits \cup {WIFI_FAIL_BIT}
            /\ last_event' = IP_EVENT_STA_GOT_IP =>
                   /\ s_retry_num' = 0
                   /\ reconnects' = 0
                   /\ event_bits' = event_bits \cup {WIFI_CONNECTED_BIT}]_vars
    /\ (s_retry_num = ESP_MAXIMUM_RETRY
            /\ wifi_link \in {"connecting", "associated"})
           ~> (WIFI_FAIL_BIT \in event_bits \/ s_retry_num = 0)
    /\ (wifi_pc = "waiting") ~> (wifi_pc = "returned")

\* wifi_connect has returned failure after the first attempt and all
\* ESP_MAXIMUM_RETRY retries ended in a disconnected event.
C39_Witness ==
    /\ wifi_pc = "returned"
    /\ wifi_ret = -1
    /\ event_bits = {WIFI_FAIL_BIT}
    /\ s_retry_num = ESP_MAXIMUM_RETRY
    /\ reconnects = ESP_MAXIMUM_RETRY
    /\ last_event = WIFI_EVENT_STA_DISCONNECTED
    /\ wifi_link = "down"

====
